---- MODULE Spec2Model ----
(***************************************************************************)
(* Model of app.py, the Streamlit dashboard of Song_Analysis.              *)
(*                                                                         *)
(* Streamlit executes the script from its first to its last line on every  *)
(* user interaction ("script run").  The model follows one run section by  *)
(* section (pc) and lets the user interact between runs.  Text is a        *)
(* sequence of one-character strings; tables are sequences of rows.        *)
(***************************************************************************)
EXTENDS Integers, Sequences, FiniteSets, TLC

\* ------------------------------------------------------------------ bounds
MaxLen == 3     \* longest text typed into the text area
MaxRows == 2    \* most data rows of an uploaded CSV file

\* ------------------------------------------------------- program constants
HeadRows == 5   \* DataFrame.head() keeps the first five rows

\* --------------------------------------------------------------- alphabet
\* a lone surrogate: a character of a str that UTF-8 cannot encode
Surrogate == "\\udc80"
Digits == {"1", "2"}
Chars == {"1", "2", ",", " ", "x"}

DigitValue(c) == IF c = "1" THEN 1 ELSE 2
DigitChar(d) == IF d = 0 THEN "0" ELSE IF d = 1 THEN "1" ELSE IF d = 2 THEN "2"
                ELSE IF d = 3 THEN "3" ELSE IF d = 4 THEN "4" ELSE IF d = 5 THEN "5"
                ELSE IF d = 6 THEN "6" ELSE IF d = 7 THEN "7" ELSE IF d = 8 THEN "8"
                ELSE "9"

\* ----------------------------------------------------------------- values
\* A cell of an array or of a DataFrame: a number or a str.
Num(n) == [t |-> "num", n |-> n, s |-> <<>>]
Str(s) == [t |-> "str", n |-> 0, s |-> s]

\* ------------------------------------------------ str methods (line 116)
RECURSIVE split(_)
\* user_input.split(","): the segments between commas, empty ones included
split(s) ==
    IF \A i \in 1..Len(s) : s[i] # ","
    THEN <<s>>
    ELSE LET i == CHOOSE j \in 1..Len(s) : s[j] = "," /\ \A k \in 1..(j-1) : s[k] # ","
         IN <<SubSeq(s, 1, i-1)>> \o split(SubSeq(s, i+1, Len(s)))

RECURSIVE lstrip(_)
lstrip(s) == IF s # <<>> /\ Head(s) = " " THEN lstrip(Tail(s)) ELSE s

RECURSIVE rstrip(_)
rstrip(s) == IF s # <<>> /\ s[Len(s)] = " " THEN rstrip(SubSeq(s, 1, Len(s)-1)) ELSE s

\* strip() forgotten
strip_none(s) == s

\* x.strip()
strip(s) == rstrip(lstrip(s))

\* float(s) returns (TRUE) or raises ValueError (FALSE); float() itself
\* tolerates surrounding whitespace
IsFloat(s) == strip(s) # <<>> /\ \A i \in 1..Len(strip(s)) : strip(s)[i] \in Digits

RECURSIVE DecimalValue(_)
DecimalValue(s) ==
    IF s = <<>> THEN 0 ELSE 10 * DecimalValue(SubSeq(s, 1, Len(s)-1)) + DigitValue(s[Len(s)])

\* float(s) for a valid s
float(s) == DecimalValue(strip(s))

RECURSIVE SelectTokens(_)
\* the `if x.strip() != ""` filter of the comprehension
SelectTokens(toks) ==
    IF toks = <<>> THEN <<>>
    ELSE IF strip(Head(toks)) # <<>> THEN <<Head(toks)>> \o SelectTokens(Tail(toks))
    ELSE SelectTokens(Tail(toks))

\* arr = [float(x.strip()) for x in user_input.split(",") if x.strip() != ""]
\* ok = FALSE: some float() raised ValueError
ParseInput(text) ==
    LET kept == SelectTokens(split(text))
    IN IF \A i \in 1..Len(kept) : IsFloat(strip(kept[i]))
       THEN [ok |-> TRUE, arr |-> [i \in 1..Len(kept) |-> Num(float(strip(kept[i])))]]
       ELSE [ok |-> FALSE, arr |-> <<>>]

\* A 2-D array: shape (rows, columns) and the rows.
Array2D(n, k, rows) == [ndim |-> 2, shape |-> <<n, k>>, data |-> rows]

\* reshape forgotten: the 1-D array itself
reshape_flat(arr) == [ndim |-> 1, shape |-> <<Len(arr)>>, data |-> arr]

\* X = np.array(arr).reshape(1, -1): one row holding all of arr
reshape(arr) == Array2D(1, Len(arr), <<arr>>)

\* --------------------------------------------- uploaded files (line 129)
\* uploaded_file: None, a zero-byte file, or a header line and data rows of
\* as many cells as the header has names.
NoFile == [kind |-> "none", header |-> <<>>, rows |-> <<>>]
EmptyFile == [kind |-> "empty", header |-> <<>>, rows |-> <<>>]
CsvFile(h, r) == [kind |-> "csv", header |-> h, rows |-> r]

Headers == {<<"prediction">>, <<"a", "b">>, <<"a", "prediction">>}
CellTokens == {<<"1">>, <<"2">>, <<"x">>}
Files ==
    {EmptyFile} \cup
    UNION {{CsvFile(h, r) : r \in UNION {[1..n -> [1..Len(h) -> CellTokens]] : n \in 0..MaxRows}}
           : h \in Headers}

\* ------------------------------------------------ pandas (lines 132-146)
IsNumberToken(tok) == tok # <<>> /\ \A i \in 1..Len(tok) : tok[i] \in Digits

\* pd.read_csv infers one dtype per column: numbers when every cell of the
\* column parses as a number, str otherwise
NumericColumn(file, j) == \A i \in 1..Len(file.rows) : IsNumberToken(file.rows[i][j])

\* df = pd.read_csv(uploaded_file); ok = FALSE: it raised (EmptyDataError)
read_csv(file) ==
    IF file.kind # "csv"
    THEN [ok |-> FALSE, df |-> [columns |-> <<>>, rows |-> <<>>]]
    ELSE [ok |-> TRUE,
          df |-> [columns |-> file.header,
                  rows |-> [i \in 1..Len(file.rows) |->
                              [j \in 1..Len(file.header) |->
                                 IF NumericColumn(file, j)
                                 THEN Num(DecimalValue(file.rows[i][j]))
                                 ELSE Str(file.rows[i][j])]]]]

\* df.head()
head(df) ==
    [df EXCEPT !.rows = SubSeq(df.rows, 1, IF Len(df.rows) < HeadRows THEN Len(df.rows) ELSE HeadRows)]

\* df.values
values(df) == Array2D(Len(df.rows), Len(df.columns), df.rows)

ColumnIndex(df, name) == CHOOSE j \in 1..Len(df.columns) : df.columns[j] = name

\* out = df.copy(); out["prediction"] = preds
\* An existing column of that name is replaced, otherwise a column is
\* appended; ok = FALSE: preds has not one value per row (ValueError).
SetColumn(df, name, preds) ==
    IF Len(preds) # Len(df.rows)
    THEN [ok |-> FALSE, df |-> df]
    ELSE IF \E j \in 1..Len(df.columns) : df.columns[j] = name
    THEN [ok |-> TRUE,
          df |-> [df EXCEPT !.rows = [i \in 1..Len(df.rows) |->
                                        [df.rows[i] EXCEPT ![ColumnIndex(df, name)] = preds[i]]]]]
    ELSE [ok |-> TRUE,
          df |-> [columns |-> Append(df.columns, name),
                  rows |-> [i \in 1..Len(df.rows) |-> Append(df.rows[i], preds[i])]]]

RECURSIVE FormatNumber(_)
FormatNumber(n) ==
    IF n < 10 THEN <<DigitChar(n)>> ELSE Append(FormatNumber(n \div 10), DigitChar(n % 10))

FormatCell(v) == IF v.t = "num" THEN FormatNumber(v.n) ELSE v.s

\* out.to_csv(index=False): the header line and one line per row, no index
to_csv(df) ==
    [header |-> df.columns,
     rows |-> [i \in 1..Len(df.rows) |-> [j \in 1..Len(df.columns) |-> FormatCell(df.rows[i][j])]]]

Utf8(text) == \A k \in 1..Len(text) : text[k] # Surrogate

\* csv.encode("utf-8"); ok = FALSE: UnicodeEncodeError, the text holds a
\* lone surrogate
encode(csv) ==
    IF \A i \in 1..Len(csv.rows) : \A j \in 1..Len(csv.rows[i]) : Utf8(csv.rows[i][j])
    THEN [ok |-> TRUE, bytes |-> <<[encoding |-> "utf-8", text |-> csv]>>]
    ELSE [ok |-> FALSE, bytes |-> <<>>]

\* st.write(value) and st.dataframe(df) serialise what they show (protobuf,
\* Arrow), which raises on a str that UTF-8 cannot encode.
Renderable(v) == v.t = "str" => Utf8(v.s)
RenderableTable(df) ==
    \A i \in 1..Len(df.rows) : \A j \in 1..Len(df.rows[i]) : Renderable(df.rows[i][j])

\* ------------------------------------------- the model file (lines 74-84)
\* What may lie at MODEL_PATH: nothing, a file joblib cannot load, a pickle
\* of None, or a pickle of an object.  The three objects stand for the
\* artifact of unknown schema:
\*   regressor   checks its input like a scikit-learn estimator,
\*   aggregator  returns one value whatever the number of rows,
\*   labeller    returns one str label per row, a label that holds a lone
\*               surrogate (as str gets from os.fsdecode).
ModelObjects == {"regressor", "aggregator", "labeller"}
ModelFiles == {"absent", "corrupt", "pickledNone"} \cup ModelObjects
BannerFiles == {"absent", "image", "invalid"}

NFeatures == 2   \* the number of features the regressor was trained on

exists(file) == file # "absent"

\* joblib.load(MODEL_PATH): ok = FALSE: it raised
joblib_load(file) ==
    IF file = "corrupt" THEN [ok |-> FALSE, obj |-> "None"]
    ELSE IF file = "pickledNone" THEN [ok |-> TRUE, obj |-> "None"]
    ELSE [ok |-> TRUE, obj |-> file]

RECURSIVE SumRow(_)
SumRow(row) == IF row = <<>> THEN 0 ELSE Head(row).n + SumRow(Tail(row))

\* model.predict(X); ok = FALSE: it raised
predict(m, X) ==
    IF m = "regressor"
    THEN IF /\ X.ndim = 2
            /\ X.shape[1] >= 1
            /\ X.shape[2] = NFeatures
            /\ \A i \in 1..Len(X.data) : \A j \in 1..Len(X.data[i]) : X.data[i][j].t = "num"
         THEN [ok |-> TRUE, preds |-> [i \in 1..Len(X.data) |-> Num(10 + SumRow(X.data[i]))]]
         ELSE [ok |-> FALSE, preds |-> <<>>]
    ELSE IF m = "aggregator"
    THEN [ok |-> TRUE, preds |-> <<Num(X.shape[1])>>]
    ELSE [ok |-> TRUE, preds |-> [i \in 1..X.shape[1] |-> Str(<<Surrogate>>)]]

\* ------------------------------------------------------------ the state
VARIABLES
    banner_file,    \* what lies at banner_path
    model_file,     \* what lies at MODEL_PATH
    page,           \* the sidebar radio's selection
    user_input,     \* the text area's content
    uploaded_file,  \* the file uploader's content
    clicked,        \* the button whose click started this run, or "none"
    pc,             \* the section of the script the run is at
    model,          \* the script's variable `model`
    out,            \* what the run has rendered so far
    calls           \* the calls of model.predict in this run, in order

vars == <<banner_file, model_file, page, user_input, uploaded_file, clicked, pc, model, out, calls>>
files == <<banner_file, model_file>>
widgets == <<page, user_input, uploaded_file, clicked>>

Pages == {"About", "Prediction", "Upload & Batch Predict", "Instructions"}

TextArea == "Enter comma-separated features"
Uploader == "Upload CSV file"
BtnManual == "Predict (manual)"
BtnRun == "Run predictions on uploaded CSV"
BtnDownload == "Download results CSV"
Buttons == {BtnManual, BtnRun, BtnDownload}

MsgNoModel == "No model loaded. Ensure model[1].pkl is present or load model at runtime."
MsgCouldNotPredict == "Could not predict: ..."
MsgPreview == "Preview of uploaded data (first 5 rows):"
MsgNoModelBatch == "No model loaded. Cannot run predictions."
MsgComplete == "Predictions complete."
MsgPredictionFailed == "Prediction failed: ..."
MsgReadFailed == "Failed to read CSV: ..."

\* Nothing rendered: the page as a script run starts.
Blank ==
    [title |-> FALSE, banner |-> "none", author |-> FALSE, problem |-> FALSE,
     workflow |-> FALSE, sidebar |-> "none", nav |-> FALSE, body |-> <<>>,
     widgets |-> {}, messages |-> <<>>, prediction |-> <<>>, tables |-> <<>>,
     download |-> <<>>, exception |-> FALSE]

Call(X, r) == [X |-> X, ok |-> r.ok, preds |-> r.preds]

Init ==
    /\ banner_file \in BannerFiles
    /\ model_file \in ModelFiles
    /\ page = "About"
    /\ user_input = <<>>
    /\ uploaded_file = NoFile
    /\ clicked = "none"
    /\ pc = "header"
    /\ model = "None"
    /\ out = Blank
    /\ calls = <<>>

\* ---------------------------------------------------- the script, app.py
\* lines 12-19: page config, title and subtitle
Header ==
    /\ pc = "header"
    /\ out' = [out EXCEPT !.title = TRUE]
    /\ pc' = "banner"
    /\ UNCHANGED <<files, widgets, model, calls>>

\* lines 24-30: the banner.  Image.open is called outside any try: on a
\* file that is no image it raises and the run ends there.
Banner ==
    /\ pc = "banner"
    /\ IF exists(banner_file)
       THEN IF banner_file = "image"
            THEN out' = [out EXCEPT !.banner = "image"] /\ pc' = "narrative"
            ELSE out' = [out EXCEPT !.exception = TRUE] /\ pc' = "aborted"
       ELSE out' = [out EXCEPT !.banner = "info"] /\ pc' = "narrative"
    /\ UNCHANGED <<files, widgets, model, calls>>

\* lines 35-68: author, problem statement, workflow
Narrative ==
    /\ pc = "narrative"
    /\ out' = [out EXCEPT !.author = TRUE, !.problem = TRUE, !.workflow = TRUE]
    /\ pc' = "load"
    /\ UNCHANGED <<files, widgets, model, calls>>

\* the os.path.exists test dropped: joblib.load raises on a missing file
LoadedModel_NoExistsCheck(file) ==
    IF exists(file) /\ joblib_load(file).ok
    THEN [model |-> joblib_load(file).obj, sidebar |-> "success"]
    ELSE [model |-> "None", sidebar |-> "error"]

\* lines 76-84: model = None, then the guarded joblib.load
LoadedModel(file) ==
    IF exists(file)
    THEN IF joblib_load(file).ok
         THEN [model |-> joblib_load(file).obj, sidebar |-> "success"]
         ELSE [model |-> "None", sidebar |-> "error"]
    ELSE [model |-> "None", sidebar |-> "warning"]

LoadModel ==
    /\ pc = "load"
    /\ model' = LoadedModel(model_file).model
    /\ out' = [out EXCEPT !.sidebar = LoadedModel(model_file).sidebar]
    /\ pc' = "nav"
    /\ UNCHANGED <<files, widgets, calls>>

\* lines 89-90: the sidebar title and the page radio
Navigation ==
    /\ pc = "nav"
    /\ out' = [out EXCEPT !.nav = TRUE]
    /\ pc' = "page"
    /\ UNCHANGED <<files, widgets, model, calls>>

\* lines 95-97
AboutPage ==
    /\ pc = "page"
    /\ page = "About"
    /\ out' = [out EXCEPT !.body = Append(@, "About")]
    /\ pc' = "done"
    /\ UNCHANGED <<files, widgets, model, calls>>

\* the try block opened after the parsing: a ValueError of float() is
\* reported nowhere
ManualPredict_ParseUnhandled(m, text) ==
    LET p == ParseInput(text)
        X == reshape(p.arr)
        r == predict(m, X)
    IN IF ~p.ok
       THEN [messages |-> <<>>, prediction |-> <<>>, calls |-> <<>>]
       ELSE IF ~r.ok \/ r.preds = <<>> \/ ~Renderable(r.preds[1])
       THEN [messages |-> <<MsgCouldNotPredict>>, prediction |-> <<>>, calls |-> <<Call(X, r)>>]
       ELSE [messages |-> <<>>, prediction |-> <<r.preds[1]>>, calls |-> <<Call(X, r)>>]

\* lines 114-121: the try block of the manual prediction and its handler
ManualPredict(m, text) ==
    LET p == ParseInput(text)
        X == reshape(p.arr)
        r == predict(m, X)
    IN IF ~p.ok
       THEN [messages |-> <<MsgCouldNotPredict>>, prediction |-> <<>>, calls |-> <<>>]
       ELSE IF ~r.ok \/ r.preds = <<>> \/ ~Renderable(r.preds[1])
       THEN [messages |-> <<MsgCouldNotPredict>>, prediction |-> <<>>, calls |-> <<Call(X, r)>>]
       ELSE [messages |-> <<>>, prediction |-> <<r.preds[1]>>, calls |-> <<Call(X, r)>>]

\* lines 110-121: what a click on 'Predict (manual)' does
ManualClick(m, text) ==
    IF m = "None"
    THEN [messages |-> <<MsgNoModel>>, prediction |-> <<>>, calls |-> <<>>]
    ELSE ManualPredict(m, text)

\* lines 102-121
PredictionPage ==
    /\ pc = "page"
    /\ page = "Prediction"
    /\ LET o == [out EXCEPT !.body = Append(@, "Prediction"),
                            !.widgets = @ \cup {TextArea, BtnManual}]
           r == ManualClick(model, user_input)
       IN IF clicked = BtnManual
          THEN /\ out' = [o EXCEPT !.messages = @ \o r.messages, !.prediction = r.prediction]
               /\ calls' = calls \o r.calls
          ELSE /\ out' = o
               /\ calls' = calls
    /\ pc' = "done"
    /\ UNCHANGED <<files, widgets, model>>

Table(kind, df) == [kind |-> kind, df |-> df]

\* lines 139-149: the try block of the batch prediction and its handler.
\* 'Predictions complete.' (line 143) is shown before the result is
\* rendered (144) and encoded (146); a failure of either adds 'Prediction
\* failed: ...' below it.
BatchPredict(m, df) ==
    LET X == values(df)
        r == predict(m, X)
        o == SetColumn(df, "prediction", r.preds)
        csv == encode(to_csv(o.df))
    IN IF ~r.ok \/ ~o.ok
       THEN [messages |-> <<MsgPredictionFailed>>, tables |-> <<>>, download |-> <<>>,
             widgets |-> {}, calls |-> <<Call(X, r)>>]
       ELSE IF ~RenderableTable(head(o.df))
       THEN [messages |-> <<MsgComplete, MsgPredictionFailed>>, tables |-> <<>>,
             download |-> <<>>, widgets |-> {}, calls |-> <<Call(X, r)>>]
       ELSE IF ~csv.ok
       THEN [messages |-> <<MsgComplete, MsgPredictionFailed>>,
             tables |-> <<Table("result", head(o.df))>>, download |-> <<>>,
             widgets |-> {}, calls |-> <<Call(X, r)>>]
       ELSE [messages |-> <<MsgComplete>>,
             tables |-> <<Table("result", head(o.df))>>, download |-> csv.bytes,
             widgets |-> {BtnDownload}, calls |-> <<Call(X, r)>>]

Nothing == [messages |-> <<>>, tables |-> <<>>, download |-> <<>>, widgets |-> {}, calls |-> <<>>]

\* the `model is None` test dropped
BelowPreview_Unguarded(m, df, click) ==
    IF click = BtnRun
    THEN [BatchPredict(m, df) EXCEPT !.widgets = @ \cup {BtnRun}]
    ELSE [Nothing EXCEPT !.widgets = {BtnRun}]

\* the prediction run whether or not the button was clicked
BelowPreview_IgnoresClick(m, df, click) ==
    IF m = "None"
    THEN [Nothing EXCEPT !.messages = <<MsgNoModelBatch>>]
    ELSE [BatchPredict(m, df) EXCEPT !.widgets = @ \cup {BtnRun}]

\* lines 135-149: below the preview
BelowPreview(m, df, click) ==
    IF m = "None"
    THEN [Nothing EXCEPT !.messages = <<MsgNoModelBatch>>]
    ELSE IF click = BtnRun
    THEN [BatchPredict(m, df) EXCEPT !.widgets = @ \cup {BtnRun}]
    ELSE [Nothing EXCEPT !.widgets = {BtnRun}]

\* lines 130-151: below the file uploader
BelowUploader(m, file, click) ==
    LET r == read_csv(file)
        b == BelowPreview(m, r.df, click)
    IN IF file = NoFile
       THEN Nothing
       ELSE IF ~r.ok
       THEN [Nothing EXCEPT !.messages = <<MsgReadFailed>>]
       ELSE [b EXCEPT !.messages = <<MsgPreview>> \o @,
                      !.tables = <<Table("preview", head(r.df))>> \o @]

\* lines 126-151
BatchPage ==
    /\ pc = "page"
    /\ page = "Upload & Batch Predict"
    /\ LET r == BelowUploader(model, uploaded_file, clicked)
       IN /\ out' = [out EXCEPT !.body = Append(@, "Upload & Batch Predict"),
                                !.widgets = @ \cup {Uploader} \cup r.widgets,
                                !.messages = @ \o r.messages,
                                !.tables = @ \o r.tables,
                                !.download = r.download]
          /\ calls' = calls \o r.calls
    /\ pc' = "done"
    /\ UNCHANGED <<files, widgets, model>>

\* lines 156-184
InstructionsPage ==
    /\ pc = "page"
    /\ page = "Instructions"
    /\ out' = [out EXCEPT !.body = Append(@, "Instructions")]
    /\ pc' = "done"
    /\ UNCHANGED <<files, widgets, model, calls>>

\* ------------------------------------------------- reruns (Streamlit)
Idle == pc \in {"done", "aborted"}

\* the download kept from one run to the next
StartRun_KeepsDownload ==
    /\ pc' = "header"
    /\ out' = [Blank EXCEPT !.download = out.download]
    /\ model' = "None"
    /\ calls' = <<>>

\* A script run starts from the first line: nothing is rendered, no name of
\* the script is bound.
StartRun ==
    /\ pc' = "header"
    /\ out' = Blank
    /\ model' = "None"
    /\ calls' = <<>>

\* The user selects another page in the sidebar radio (line 90).  Widgets
\* of the page left behind lose their content.
SelectPage ==
    /\ Idle
    /\ out.nav
    /\ \E p \in Pages \ {page} : page' = p
    /\ user_input' = <<>>
    /\ uploaded_file' = NoFile
    /\ clicked' = "none"
    /\ StartRun
    /\ UNCHANGED files

\* The user types one more character into the text area, or deletes the
\* last one, and submits (line 109).
EditText ==
    /\ Idle
    /\ TextArea \in out.widgets
    /\ \/ /\ Len(user_input) < MaxLen
          /\ \E c \in Chars : user_input' = Append(user_input, c)
       \/ /\ user_input # <<>>
          /\ user_input' = SubSeq(user_input, 1, Len(user_input) - 1)
    /\ clicked' = "none"
    /\ StartRun
    /\ UNCHANGED <<files, page, uploaded_file>>

\* The user uploads a file into the empty uploader, or removes the file
\* that is there (line 129).
UploadFile ==
    /\ Idle
    /\ Uploader \in out.widgets
    /\ IF uploaded_file = NoFile
       THEN \E f \in Files : uploaded_file' = f
       ELSE uploaded_file' = NoFile
    /\ clicked' = "none"
    /\ StartRun
    /\ UNCHANGED <<files, page, user_input>>

\* The user clicks a button the last run rendered (lines 110, 138, 147).
ClickButton ==
    /\ Idle
    /\ \E b \in Buttons \cap out.widgets : clicked' = b
    /\ StartRun
    /\ UNCHANGED <<files, page, user_input, uploaded_file>>

\* The user reruns the page; the files on disk may have changed meanwhile.
Refresh ==
    /\ Idle
    /\ banner_file' \in BannerFiles
    /\ model_file' \in ModelFiles
    /\ clicked' = "none"
    /\ StartRun
    /\ UNCHANGED <<page, user_input, uploaded_file>>

Next ==
    \/ Header
    \/ Banner
    \/ Narrative
    \/ LoadModel
    \/ Navigation
    \/ AboutPage
    \/ PredictionPage
    \/ BatchPage
    \/ InstructionsPage
    \/ SelectPage
    \/ EditText
    \/ UploadFile
    \/ ClickButton
    \/ Refresh

Spec == Init /\ [][Next]_vars

\* ------------------------------------------------------- the properties
Shown(msg) == \E i \in 1..Len(out.messages) : out.messages[i] = msg
Rendered(kind) == \E i \in 1..Len(out.tables) : out.tables[i].kind = kind
ManualRun == page = "Prediction" /\ clicked = BtnManual
BatchRun == page = "Upload & Batch Predict" /\ uploaded_file # NoFile

\* C1: on the Prediction page with a model loaded and 'Predict (manual)'
\* clicked, a failure of parsing, of reshaping or of model.predict is
\* caught: the run ends normally, shows 'Could not predict: ...' and shows
\* no prediction value.
C1_ManualFailuresCaught ==
    (ManualRun /\ model # "None") =>
        /\ pc # "aborted"
        /\ ~out.exception
        /\ pc = "done" =>
              /\ Shown(MsgCouldNotPredict) <=> out.prediction = <<>>
              /\ (~ParseInput(user_input).ok \/ \E i \in 1..Len(calls) : ~calls[i].ok) =>
                    (Shown(MsgCouldNotPredict) /\ out.prediction = <<>>)

C1_Witness ==
    /\ pc = "done" /\ ManualRun /\ model = "regressor"
    /\ Len(calls) = 1 /\ ~calls[1].ok
    /\ Shown(MsgCouldNotPredict) /\ out.prediction = <<>>

\* C2: when the batch prediction succeeds, the downloadable CSV has the
\* uploaded rows in their order, every uploaded column unchanged, and one
\* more column, 'prediction', holding the i-th returned value in row i.
C2_DownloadAppendsColumn ==
    (pc = "done" /\ out.download # <<>>) =>
        LET csv == out.download[1].text
        IN /\ csv.header = uploaded_file.header \o <<"prediction">>
           /\ Len(csv.rows) = Len(uploaded_file.rows)
           /\ \A i \in 1..Len(csv.rows) :
                 csv.rows[i] = uploaded_file.rows[i] \o <<FormatCell(calls[1].preds[i])>>

\* C3 as stated: whenever model.predict is invoked, its argument is a 2-D
\* array of numbers with as many columns as the model has features.
C3_PredictArgRightWidth ==
    \A c \in 1..Len(calls) :
        model = "regressor" =>
            /\ calls[c].X.ndim = 2
            /\ calls[c].X.shape[2] = NFeatures
            /\ \A i \in 1..Len(calls[c].X.data) : \A j \in 1..Len(calls[c].X.data[i]) :
                  calls[c].X.data[i][j].t = "num"

\* C3 as amended: whenever model.predict is invoked, its argument is a 2-D
\* array: on the Prediction page one row of numbers, on the batch page one
\* row per data row of the upload and one column per uploaded column.  The
\* width, and on the batch page the cell types, are not checked.
C3_PredictArgIs2D ==
    \A c \in 1..Len(calls) :
        LET X == calls[c].X
        IN /\ X.ndim = 2
           /\ Len(X.data) = X.shape[1]
           /\ \A i \in 1..Len(X.data) : Len(X.data[i]) = X.shape[2]
           /\ page = "Prediction" =>
                 /\ X.shape[1] = 1
                 /\ \A j \in 1..Len(X.data[1]) : X.data[1][j].t = "num"
           /\ page = "Upload & Batch Predict" =>
                 X.shape = <<Len(uploaded_file.rows), Len(uploaded_file.header)>>

C3_Witness ==
    /\ pc = "done" /\ page = "Upload & Batch Predict" /\ model = "regressor"
    /\ Len(calls) = 1
    /\ calls[1].X.shape = <<2, 1>>
    /\ calls[1].X.data[2][1].t = "str"

\* C4 as stated: with no model loaded predict is never invoked; a click on
\* 'Predict (manual)' shows 'No model loaded' without parsing; on the
\* batch page an uploaded file is previewed, 'No model loaded. Cannot run
\* predictions.' is shown and neither the run button nor the download
\* button is offered.
C4_NoModelUploadPreviewed ==
    (pc = "done" /\ model = "None") =>
        /\ calls = <<>>
        /\ ManualRun => (Shown(MsgNoModel) /\ ~Shown(MsgCouldNotPredict))
        /\ BatchRun =>
              /\ Rendered("preview")
              /\ Shown(MsgNoModelBatch)
              /\ BtnRun \notin out.widgets
              /\ BtnDownload \notin out.widgets

\* C4 as amended: the same, but the preview and 'No model loaded. Cannot
\* run predictions.' appear only for an upload that pd.read_csv reads; for
\* an upload it cannot read, 'Failed to read CSV: ...' is shown instead,
\* with no preview.
C4_NoModelNoPredict ==
    (pc = "done" /\ model = "None") =>
        /\ calls = <<>>
        /\ out.prediction = <<>> /\ out.download = <<>>
        /\ ManualRun => (Shown(MsgNoModel) /\ ~Shown(MsgCouldNotPredict))
        /\ BatchRun =>
              /\ BtnRun \notin out.widgets
              /\ BtnDownload \notin out.widgets
              /\ IF uploaded_file.kind = "csv"
                 THEN Rendered("preview") /\ Shown(MsgNoModelBatch) /\ ~Shown(MsgReadFailed)
                 ELSE ~Rendered("preview") /\ ~Shown(MsgNoModelBatch) /\ Shown(MsgReadFailed)

C4_Witness ==
    /\ pc = "done" /\ model = "None" /\ BatchRun
    /\ uploaded_file.kind = "csv" /\ Len(uploaded_file.rows) = 2
    /\ Rendered("preview") /\ Shown(MsgNoModelBatch)

AfterLoad == pc \in {"nav", "page", "done"}

\* C5 as stated: after the load step model is not None exactly when the
\* file exists and joblib.load returned; a missing file gives a sidebar
\* warning, a load exception a sidebar error, and the navigation and the
\* selected page are rendered all the same.
C5_ModelIffLoadReturned ==
    AfterLoad =>
        /\ model # "None" <=> (exists(model_file) /\ joblib_load(model_file).ok)
        /\ model_file = "absent" => out.sidebar = "warning"
        /\ model_file = "corrupt" => out.sidebar = "error"
        /\ pc = "done" => (out.nav /\ out.body = <<page>>)

\* C5 as amended: after the load step model is not None exactly when the
\* file exists, joblib.load returned and the object it returned is not
\* None; the rest as stated.
C5_ModelIffObjectLoaded ==
    /\ out.sidebar # "none" => (AfterLoad /\ ~out.exception)
    /\ AfterLoad =>
        /\ model # "None" <=> model_file \notin {"absent", "corrupt", "pickledNone"}
        /\ model # "None" => model = model_file
        /\ model_file = "absent" => (out.sidebar = "warning" /\ model = "None")
        /\ model_file = "corrupt" => (out.sidebar = "error" /\ model = "None")
        /\ model_file \notin {"absent", "corrupt"} => out.sidebar = "success"
        /\ pc = "done" => (out.nav /\ out.body = <<page>>)

C5_Witness ==
    /\ pc = "done" /\ model_file = "corrupt" /\ model = "None"
    /\ out.sidebar = "error" /\ out.nav /\ out.body = <<"Prediction">>

\* What a run renders, as a function of what the run reads and of nothing
\* else: the files, the widgets' contents and the button clicked.
RunOutput(banner, mfile, pg, text, file, click) ==
    LET loaded == LoadedModel(mfile)
        frame == [Blank EXCEPT !.title = TRUE,
                               !.banner = IF banner = "image" THEN "image" ELSE "info",
                               !.author = TRUE, !.problem = TRUE, !.workflow = TRUE,
                               !.sidebar = loaded.sidebar, !.nav = TRUE, !.body = <<pg>>]
        manual == ManualClick(loaded.model, text)
        batch == BelowUploader(loaded.model, file, click)
    IN IF banner = "invalid"
       THEN [Blank EXCEPT !.title = TRUE, !.exception = TRUE]
       ELSE IF pg = "Prediction"
       THEN [frame EXCEPT !.widgets = {TextArea, BtnManual},
                          !.messages = IF click = BtnManual THEN manual.messages ELSE <<>>,
                          !.prediction = IF click = BtnManual THEN manual.prediction ELSE <<>>]
       ELSE IF pg = "Upload & Batch Predict"
       THEN [frame EXCEPT !.widgets = {Uploader} \cup batch.widgets,
                          !.messages = batch.messages,
                          !.tables = batch.tables,
                          !.download = batch.download]
       ELSE frame

\* C6: nothing but the model file persists between script runs: what a
\* finished run shows is determined by what that run read (banner file,
\* model file, page, text, upload, button clicked), whatever earlier runs
\* rendered, so two runs with the same inputs show the same.
C6_OutputDependsOnInputsOnly ==
    Idle => out = RunOutput(banner_file, model_file, page, user_input, uploaded_file, clicked)

\* The run started by a click on the download button: the run before it
\* offered a download, this one has the same upload and offers none.
C6_Witness ==
    /\ pc = "done" /\ clicked = BtnDownload
    /\ uploaded_file.kind = "csv" /\ BtnRun \in out.widgets
    /\ out.download = <<>> /\ ~Shown(MsgComplete)

\* The comma-separated segments of a text, by position.
Commas(t) == {i \in 1..Len(t) : t[i] = ","}
Cut(t, k) ==
    IF k = 0 THEN 0
    ELSE IF k = Cardinality(Commas(t)) + 1 THEN Len(t) + 1
    ELSE CHOOSE i \in Commas(t) : Cardinality({j \in Commas(t) : j < i}) = k - 1
Segment(t, k) == SubSeq(t, Cut(t, k-1) + 1, Cut(t, k) - 1)
Inked(seg) == {i \in 1..Len(seg) : seg[i] # " "}
First(S) == CHOOSE i \in S : \A j \in S : i <= j
Last(S) == CHOOSE i \in S : \A j \in S : j <= i
TokenValid(seg) == \A i \in First(Inked(seg))..Last(Inked(seg)) : seg[i] \in Digits
RECURSIVE Pow10(_)
Pow10(e) == IF e = 0 THEN 1 ELSE 10 * Pow10(e - 1)
RECURSIVE SumOver(_, _, _)
SumOver(seg, S, last) ==
    IF S = {} THEN 0
    ELSE LET i == First(S)
         IN (IF seg[i] = "1" THEN 1 ELSE 2) * Pow10(last - i) + SumOver(seg, S \ {i}, last)
TokenNumber(seg) == SumOver(seg, Inked(seg), Last(Inked(seg)))
NonEmptySegments(t) == {k \in 1..(Cardinality(Commas(t)) + 1) : Inked(Segment(t, k)) # {}}
Rank(S, k) == Cardinality({j \in S : j <= k})

\* C7: the text is split on commas, the tokens are stripped, empty ones are
\* dropped and the rest become floats in input order; predict receives one
\* row with one value per non-empty token, and is not called at all when a
\* non-empty token is no float.
C7_ManualParsing ==
    (pc = "done" /\ ManualRun /\ model # "None") =>
        LET K == NonEmptySegments(user_input)
        IN IF \A k \in K : TokenValid(Segment(user_input, k))
           THEN /\ Len(calls) = 1
                /\ calls[1].X.shape = <<1, Cardinality(K)>>
                /\ Len(calls[1].X.data) = 1
                /\ Len(calls[1].X.data[1]) = Cardinality(K)
                /\ \A k \in K :
                      calls[1].X.data[1][Rank(K, k)] = Num(TokenNumber(Segment(user_input, k)))
           ELSE calls = <<>>

C7_Witness ==
    /\ pc = "done" /\ ManualRun /\ model # "None"
    /\ user_input = <<"2", ",", "1">>
    /\ Len(calls) = 1
    /\ calls[1].X.data = <<<<Num(2), Num(1)>>>>

\* C8: on the batch page a failure of predict or of building the result is
\* reported as 'Prediction failed: ...' and never as 'Failed to read CSV:
\* ...'; a failure of reading the upload is reported as 'Failed to read
\* CSV: ...' with no preview and no predict call; and a failing run shows
\* neither 'Predictions complete.' nor the download button.
C8_BatchFailuresSeparate ==
    (pc = "done" /\ BatchRun) =>
        /\ uploaded_file.kind # "csv" =>
              (Shown(MsgReadFailed) /\ ~Rendered("preview") /\ calls = <<>>)
        /\ Shown(MsgPredictionFailed) => ~Shown(MsgReadFailed)
        /\ (calls # <<>> /\ out.download = <<>>) => Shown(MsgPredictionFailed)
        /\ (Shown(MsgPredictionFailed) \/ Shown(MsgReadFailed)) =>
              (~Shown(MsgComplete) /\ BtnDownload \notin out.widgets)

\* C9: across any sequence of reruns the download button is offered only
\* in a run with a file uploaded, a model loaded, 'Run predictions on
\* uploaded CSV' clicked in that run and predict successful, and its
\* content comes from the file uploaded in that run.
C9_DownloadOnlyFromThisRun ==
    (BtnDownload \in out.widgets \/ out.download # <<>>) =>
        /\ BtnDownload \in out.widgets /\ out.download # <<>>
        /\ pc = "done"
        /\ page = "Upload & Batch Predict"
        /\ uploaded_file.kind = "csv"
        /\ model # "None"
        /\ clicked = BtnRun
        /\ Len(calls) = 1 /\ calls[1].ok
        /\ calls[1].X.shape = <<Len(uploaded_file.rows), Len(uploaded_file.header)>>
        /\ LET csv == out.download[1].text
           IN /\ Len(csv.rows) = Len(uploaded_file.rows)
              /\ \A j \in 1..Len(uploaded_file.header) :
                    /\ csv.header[j] = uploaded_file.header[j]
                    /\ uploaded_file.header[j] # "prediction" =>
                          \A i \in 1..Len(csv.rows) : csv.rows[i][j] = uploaded_file.rows[i][j]

C9_Witness ==
    /\ pc = "done" /\ clicked = BtnRun /\ model = "regressor"
    /\ BtnDownload \in out.widgets
    /\ uploaded_file.header = <<"a", "b">>
    /\ Len(out.download[1].text.rows) = 2
    /\ out.download[1].text.rows[1] # out.download[1].text.rows[2]

\* C10: every script run renders exactly one page body, the selected one,
\* and the fixed narrative (title, author, problem statement, workflow).
C10_OneBodyAndNarrative ==
    Idle =>
        /\ out.body = <<page>>
        /\ out.title /\ out.author /\ out.problem /\ out.workflow

====
